---- MODULE Spec2Model ----
(***************************************************************************)
(* Model of the CursorLimitsMonitor class (the tiered version of           *)
(* cursorLimitsMonitor.ts) and of the update_usage handler of index.ts.    *)
(*                                                                         *)
(* The monitor owns three fields: limits (the usage snapshot), quotas (the *)
(* ceilings of the active tier) and updateCallbacks (the observer list).   *)
(* Every public method is one action.  The history variables lastCall, ret *)
(* and delivered record the method that ran last with its argument, as the *)
(* pair <<method, argument>>, what it returned, as the pair <<type,        *)
(* value>>, and the notifications it made (none for a method that does not *)
(* notify); now is the wall clock that `new Date()` reads; unsubscribed is *)
(* the set of observers that gave up their last registration: those o for  *)
(* which removeUpdateCallback(o) was called while o had exactly one entry  *)
(* in the list and onUpdate(o) has not been called since.                  *)
(*                                                                         *)
(* Numbers: usagePercentages are JavaScript doubles, (current / max) * 100 *)
(* capped at 100.  They are modelled as exact rationals [num, den] with    *)
(* den > 0.  For every integer count and every ceiling of the catalog the  *)
(* double and the rational agree on the comparisons made here (>= 0.8,     *)
(* >= 0.95, >= 0, <= 100, = 100).                                          *)
(*                                                                         *)
(* Observers: in every specification but SpecObservers an observer returns *)
(* normally and does not call back into the monitor.  In SpecObservers a   *)
(* callback may throw or call removeUpdateCallback; the call that notifies *)
(* is still one step, because the program is single-threaded and the call  *)
(* runs to its end, or to the exception, before anything else happens; its *)
(* lastCall has a third component, the plan of what the callbacks did, and *)
(* its ret is <<"throw", observer>> when a callback threw.                 *)
(***************************************************************************)
EXTENDS Integers, Sequences, FiniteSets, TLC

(***************************************************************************)
(* Bounds and input sets                                                   *)
(***************************************************************************)
MaxTime == 1

MaxCallbacks == 3

Observers == {"o1", "o2"}

Services == <<"sonnet45", "gemini", "gpt5", "total">>

ServiceSet == {"sonnet45", "gemini", "gpt5", "total"}

CountFields == {"sonnet45Requests", "geminiRequests", "gpt5Requests", "totalRequests"}

RecognizedTiers == {"pro", "pro-plus", "ultra"}

TierArgs == RecognizedTiers \cup {"enterprise"}

\* what a method without a return value returns
Void == <<"undefined">>

\* an optional number of a request: <<>> is undefined, <<v>> is the number v
Undefined == <<>>

\* the counts a caller may supply for each field of the snapshot
ArgValues(f) ==
  CASE f = "sonnet45Requests" -> {-1, 2, 200}
    [] f = "geminiRequests"   -> {500}
    [] f = "gpt5Requests"     -> {450}
    [] f = "totalRequests"    -> {1300}

\* the argument objects of update_usage: every field is a count or undefined
UpdateArgs ==
  { a \in [CountFields -> {Undefined} \cup
                           { <<v>> : v \in {-1, 2, 200, 450, 500, 1300} }] :
      \A f \in CountFields : a[f] = Undefined \/ a[f][1] \in ArgValues(f) }

VARIABLES limits, quotas, updateCallbacks, now, lastCall, ret, delivered,
          unsubscribed

vars == <<limits, quotas, updateCallbacks, now, lastCall, ret, delivered,
          unsubscribed>>

(***************************************************************************)
(* Rationals                                                               *)
(***************************************************************************)
Rat(n, d) == IF d < 0 THEN [num |-> -n, den |-> -d] ELSE [num |-> n, den |-> d]

RatLeq(a, b) == a.num * b.den <= b.num * a.den

RatEq(a, b) == a.num * b.den = b.num * a.den

RatMin(a, b) == IF RatLeq(b, a) THEN b ELSE a

Max(a, b) == IF a >= b THEN a ELSE b

(***************************************************************************)
(* Quota catalog                                                           *)
(***************************************************************************)
\* a catalog whose default branch gives the ceilings of pro under the name
\* that it was asked for
getQuotasForTierKeepingName(tier) ==
  [maxSonnet45Requests |-> IF tier = "pro-plus" THEN 675
                           ELSE IF tier = "ultra" THEN 4500 ELSE 225,
   maxGeminiRequests |-> IF tier = "pro-plus" THEN 1650
                         ELSE IF tier = "ultra" THEN 11000 ELSE 550,
   maxGpt5Requests |-> IF tier = "pro-plus" THEN 1500
                       ELSE IF tier = "ultra" THEN 10000 ELSE 500,
   maxTotalRequests |-> IF tier = "pro-plus" THEN 3825
                        ELSE IF tier = "ultra" THEN 25500 ELSE 1275,
   tier |-> tier]

\* a catalog whose aggregate ceiling is that of pro in every row
getQuotasForTierFlatTotal(tier) ==
  [getQuotasForTierKeepingName(IF tier \in {"pro-plus", "ultra"} THEN tier
                               ELSE "pro")
     EXCEPT !.maxTotalRequests = 1275]

getQuotasForTier(tier) ==
  CASE tier = "pro" ->
         [maxSonnet45Requests |-> 225, maxGeminiRequests |-> 550,
          maxGpt5Requests |-> 500, maxTotalRequests |-> 1275, tier |-> "pro"]
    [] tier = "pro-plus" ->
         [maxSonnet45Requests |-> 675, maxGeminiRequests |-> 1650,
          maxGpt5Requests |-> 1500, maxTotalRequests |-> 3825, tier |-> "pro-plus"]
    [] tier = "ultra" ->
         [maxSonnet45Requests |-> 4500, maxGeminiRequests |-> 11000,
          maxGpt5Requests |-> 10000, maxTotalRequests |-> 25500, tier |-> "ultra"]
    [] OTHER ->
         [maxSonnet45Requests |-> 225, maxGeminiRequests |-> 550,
          maxGpt5Requests |-> 500, maxTotalRequests |-> 1275, tier |-> "pro"]

(***************************************************************************)
(* Queries, as functions of the monitor's fields                           *)
(***************************************************************************)
\* the percentage without the cap at 100
calculatePercentageUncapped(current, max) ==
  IF max = 0 THEN Rat(0, 1)
  ELSE Rat(current * 100, max)

calculatePercentage(current, max) ==
  IF max = 0 THEN Rat(0, 1)
  ELSE RatMin(Rat(100, 1), Rat(current * 100, max))

getCurrentUsage(service) ==
  CASE service = "sonnet45" -> limits.sonnet45Requests
    [] service = "gemini"   -> limits.geminiRequests
    [] service = "gpt5"     -> limits.gpt5Requests
    [] service = "total"    -> limits.totalRequests
    [] OTHER                -> 0

getMaxUsage(service) ==
  CASE service = "sonnet45" -> quotas.maxSonnet45Requests
    [] service = "gemini"   -> quotas.maxGeminiRequests
    [] service = "gpt5"     -> quotas.maxGpt5Requests
    [] service = "total"    -> quotas.maxTotalRequests
    [] OTHER                -> 0

usagePercentages(l, q) ==
  [sonnet45 |-> calculatePercentage(l.sonnet45Requests, q.maxSonnet45Requests),
   gemini   |-> calculatePercentage(l.geminiRequests, q.maxGeminiRequests),
   gpt5     |-> calculatePercentage(l.gpt5Requests, q.maxGpt5Requests),
   total    |-> calculatePercentage(l.totalRequests, q.maxTotalRequests)]

\* ceiling minus current without the floor at 0
remainingUnfloored(l, q) ==
  [sonnet45 |-> q.maxSonnet45Requests - l.sonnet45Requests,
   gemini   |-> q.maxGeminiRequests - l.geminiRequests,
   gpt5     |-> q.maxGpt5Requests - l.gpt5Requests,
   total    |-> q.maxTotalRequests - l.totalRequests]

remaining(l, q) ==
  [sonnet45 |-> Max(0, q.maxSonnet45Requests - l.sonnet45Requests),
   gemini   |-> Max(0, q.maxGeminiRequests - l.geminiRequests),
   gpt5     |-> Max(0, q.maxGpt5Requests - l.gpt5Requests),
   total    |-> Max(0, q.maxTotalRequests - l.totalRequests)]

\* getUsageStats on the fields l, q
UsageStatsOf(l, q) ==
  [limits |-> l, quotas |-> q,
   usagePercentages |-> usagePercentages(l, q),
   remaining |-> remaining(l, q)]

getUsageStats == UsageStatsOf(limits, quotas)

getCurrentTier == quotas.tier

getServiceUsage(service) ==
  LET stats      == getUsageStats
      current    == getCurrentUsage(service)
      max        == getMaxUsage(service)
      percentage == stats.usagePercentages[service]
  IN  [service    |-> service,
       current    |-> current,
       max        |-> max,
       percentage |-> percentage,
       remaining  |-> stats.remaining[service],
       isWarning  |-> RatLeq(Rat(8, 10), percentage),
       isCritical |-> RatLeq(Rat(95, 100), percentage)]

\* a checkAlerts that evaluates the aggregate before the three services
checkAlertsTotalFirst ==
  LET order == <<"total", "sonnet45", "gemini", "gpt5">>
      usages == [i \in 1..Len(order) |-> getServiceUsage(order[i])]
      keep(usage) == usage.isWarning \/ usage.isCritical
  IN  SelectSeq(usages, keep)

checkAlerts ==
  LET usages == [i \in 1..Len(Services) |-> getServiceUsage(Services[i])]
      keep(usage) == usage.isWarning \/ usage.isCritical
  IN  SelectSeq(usages, keep)

(***************************************************************************)
(* Observer fan-out                                                        *)
(***************************************************************************)
\* a fan-out that walks the list from its end
notifyCallbacksBackwards(l, q, cbs) ==
  [i \in 1..Len(cbs) |->
     [observer |-> cbs[Len(cbs) + 1 - i], limits |-> l, quotas |-> q]]

\* The notifications of one fan-out over the list cbs, made on the fields l, q:
\* stats = getUsageStats() is computed once and every callback is called with it.
\* A notification is recorded as the observer called and the fields the stats
\* object was computed from; the object itself is StatsDelivered(n).
notifyCallbacks(l, q, cbs) ==
  [i \in 1..Len(cbs) |-> [observer |-> cbs[i], limits |-> l, quotas |-> q]]

StatsDelivered(n) == UsageStatsOf(n.limits, n.quotas)

\* Array.prototype.indexOf: the first index holding x, 0 when there is none
indexOf(s, x) ==
  IF \E i \in 1..Len(s) : s[i] = x
  THEN CHOOSE i \in 1..Len(s) : s[i] = x /\ \A j \in 1..(i - 1) : s[j] # x
  ELSE 0

\* Array.prototype.splice(index, 1)
splice(s, index) ==
  [i \in 1..(Len(s) - 1) |-> IF i < index THEN s[i] ELSE s[i + 1]]

(***************************************************************************)
(* Construction                                                            *)
(***************************************************************************)
constructor(tier) ==
  /\ limits = [sonnet45Requests |-> 0, geminiRequests |-> 0, gpt5Requests |-> 0,
               totalRequests |-> 0, lastUpdated |-> now]
  /\ quotas = getQuotasForTier(tier)
  /\ updateCallbacks = <<>>
  /\ lastCall = <<"constructor", tier>>
  /\ ret = Void
  /\ delivered = <<>>
  /\ unsubscribed = {}

Init ==
  /\ now = 0
  /\ \E tier \in TierArgs : constructor(tier)

(***************************************************************************)
(* State-changing methods                                                  *)
(***************************************************************************)
\* a tier change that also starts a fresh snapshot
updateTierResetting(tier) ==
  /\ quotas' = getQuotasForTier(tier)
  /\ limits' = [sonnet45Requests |-> 0, geminiRequests |-> 0, gpt5Requests |-> 0,
                totalRequests |-> 0, lastUpdated |-> now]
  /\ delivered' = notifyCallbacks(limits', quotas', updateCallbacks)
  /\ lastCall' = <<"updateTier", tier>>
  /\ ret' = Void
  /\ UNCHANGED <<updateCallbacks, now, unsubscribed>>

updateTier(tier) ==
  /\ quotas' = getQuotasForTier(tier)
  /\ delivered' = notifyCallbacks(limits, quotas', updateCallbacks)
  /\ lastCall' = <<"updateTier", tier>>
  /\ ret' = Void
  /\ UNCHANGED <<limits, updateCallbacks, now, unsubscribed>>

\* a replacement instead of a merge: a field that is not supplied is reset
mergeLimitsReplacing(old, newLimits, date) ==
  [f \in (DOMAIN old) \cup (DOMAIN newLimits) \cup {"lastUpdated"} |->
     IF f = "lastUpdated" THEN date
     ELSE IF f \in DOMAIN newLimits THEN newLimits[f]
     ELSE 0]

\* { ...this.limits, lastUpdated: new Date(), ...newLimits }: a lastUpdated
\* of the caller wins over the clock
mergeLimitsCallerDate(old, newLimits, date) ==
  [f \in (DOMAIN old) \cup (DOMAIN newLimits) \cup {"lastUpdated"} |->
     IF f \in DOMAIN newLimits THEN newLimits[f]
     ELSE IF f = "lastUpdated" THEN date
     ELSE old[f]]

\* { ...this.limits, ...newLimits, lastUpdated: new Date() }
mergeLimits(old, newLimits, date) ==
  [f \in (DOMAIN old) \cup (DOMAIN newLimits) \cup {"lastUpdated"} |->
     IF f = "lastUpdated" THEN date
     ELSE IF f \in DOMAIN newLimits THEN newLimits[f]
     ELSE old[f]]

updateLimits(newLimits) ==
  /\ limits' = mergeLimits(limits, newLimits, now)
  /\ delivered' = notifyCallbacks(limits', quotas, updateCallbacks)
  /\ lastCall' = <<"updateLimits", newLimits>>
  /\ ret' = Void
  /\ UNCHANGED <<quotas, updateCallbacks, now, unsubscribed>>

\* the updates object the update_usage handler builds from its arguments
updatesOf(args) ==
  [f \in {g \in CountFields : args[g] # Undefined} |-> args[f][1]]

handleUpdateUsage(args) == updateLimits(updatesOf(args))

onUpdate(callback) ==
  /\ Len(updateCallbacks) < MaxCallbacks
  /\ updateCallbacks' = Append(updateCallbacks, callback)
  /\ lastCall' = <<"onUpdate", callback>>
  /\ ret' = Void
  /\ delivered' = <<>>
  /\ unsubscribed' = unsubscribed \ {callback}
  /\ UNCHANGED <<limits, quotas, now>>

\* the number of entries of the observer list that are o
Registrations(o) ==
  Cardinality({i \in 1..Len(updateCallbacks) : updateCallbacks[i] = o})

\* unsubscribed after removeUpdateCallback(callback) is called
LastUnsubscribe(callback) ==
  IF Registrations(callback) = 1 THEN unsubscribed \cup {callback}
  ELSE unsubscribed

\* lastIndexOf in place of indexOf: the last entry that is callback is removed
removeUpdateCallbackLast(callback) ==
  /\ LET found == {i \in 1..Len(updateCallbacks) : updateCallbacks[i] = callback}
         index == IF found = {} THEN 0
                  ELSE CHOOSE i \in found : \A j \in found : j <= i
     IN  updateCallbacks' = IF index > 0 THEN splice(updateCallbacks, index)
                            ELSE updateCallbacks
  /\ lastCall' = <<"removeUpdateCallback", callback>>
  /\ ret' = Void
  /\ delivered' = <<>>
  /\ unsubscribed' = LastUnsubscribe(callback)
  /\ UNCHANGED <<limits, quotas, now>>

\* `index > 0` on the 0-based index: the head of the list is never removed
removeUpdateCallbackNotHead(callback) ==
  /\ LET index == indexOf(updateCallbacks, callback) IN
       updateCallbacks' = IF index > 1 THEN splice(updateCallbacks, index)
                          ELSE updateCallbacks
  /\ lastCall' = <<"removeUpdateCallback", callback>>
  /\ ret' = Void
  /\ delivered' = <<>>
  /\ unsubscribed' = LastUnsubscribe(callback)
  /\ UNCHANGED <<limits, quotas, now>>

removeUpdateCallback(callback) ==
  /\ LET index == indexOf(updateCallbacks, callback) IN
       updateCallbacks' = IF index > 0 THEN splice(updateCallbacks, index)
                          ELSE updateCallbacks
  /\ lastCall' = <<"removeUpdateCallback", callback>>
  /\ ret' = Void
  /\ delivered' = <<>>
  /\ unsubscribed' = LastUnsubscribe(callback)
  /\ UNCHANGED <<limits, quotas, now>>

(***************************************************************************)
(* Queries, as calls                                                       *)
(***************************************************************************)
\* a getUsageStats that stamps the snapshot as the updates do
GetUsageStatsStamping ==
  /\ limits' = [limits EXCEPT !.lastUpdated = now]
  /\ ret' = <<"UsageStats", UsageStatsOf(limits', quotas)>>
  /\ lastCall' = <<"getUsageStats", "none">>
  /\ delivered' = <<>>
  /\ UNCHANGED <<quotas, updateCallbacks, now, unsubscribed>>

GetUsageStats ==
  /\ ret' = <<"UsageStats", getUsageStats>>
  /\ lastCall' = <<"getUsageStats", "none">>
  /\ delivered' = <<>>
  /\ UNCHANGED <<limits, quotas, updateCallbacks, now, unsubscribed>>

GetServiceUsage(service) ==
  /\ ret' = <<"ServiceUsage", getServiceUsage(service)>>
  /\ lastCall' = <<"getServiceUsage", service>>
  /\ delivered' = <<>>
  /\ UNCHANGED <<limits, quotas, updateCallbacks, now, unsubscribed>>

CheckAlerts ==
  /\ ret' = <<"ServiceUsage[]", checkAlerts>>
  /\ lastCall' = <<"checkAlerts", "none">>
  /\ delivered' = <<>>
  /\ UNCHANGED <<limits, quotas, updateCallbacks, now, unsubscribed>>

GetCurrentTier ==
  /\ ret' = <<"SubscriptionTier", getCurrentTier>>
  /\ lastCall' = <<"getCurrentTier", "none">>
  /\ delivered' = <<>>
  /\ UNCHANGED <<limits, quotas, updateCallbacks, now, unsubscribed>>

\* the wall clock advances between calls
Tick ==
  /\ now < MaxTime
  /\ now' = now + 1
  /\ UNCHANGED <<limits, quotas, updateCallbacks, lastCall, ret, delivered,
                 unsubscribed>>

Next ==
  \/ \E args \in UpdateArgs : handleUpdateUsage(args)
  \/ \E tier \in TierArgs : updateTier(tier)
  \/ \E callback \in Observers : onUpdate(callback)
  \/ \E callback \in Observers : removeUpdateCallback(callback)
  \/ GetUsageStats
  \/ \E service \in ServiceSet : GetServiceUsage(service)
  \/ CheckAlerts
  \/ GetCurrentTier
  \/ Tick

Spec == Init /\ [][Next]_vars

(***************************************************************************)
(* calculatePercentage on inputs of its own.  The monitor calls it with    *)
(* the ceilings of the catalog only, which are all positive; here it is    *)
(* also applied to a ceiling of 0, next to the updates and tier changes.   *)
(***************************************************************************)
CalcCurrents == {0, 2, 200, 1300}

CalcMaxes == {0, 225, 1275, 3825}

CalculatePercentage(current, max) ==
  /\ ret' = <<"number", calculatePercentage(current, max)>>
  /\ lastCall' = <<"calculatePercentage", [current |-> current, max |-> max]>>
  /\ delivered' = <<>>
  /\ UNCHANGED <<limits, quotas, updateCallbacks, now, unsubscribed>>

NextCalc ==
  \/ \E args \in UpdateArgs : handleUpdateUsage(args)
  \/ \E tier \in TierArgs : updateTier(tier)
  \/ \E current \in CalcCurrents, max \in CalcMaxes :
       CalculatePercentage(current, max)

SpecCalc == Init /\ [][NextCalc]_vars

(***************************************************************************)
(* The run of example.ts: a monitor of the default tier, the two updates   *)
(* of the example (and the updates that supply some of their fields), the  *)
(* subscription, and the queries the example makes.                        *)
(***************************************************************************)
ExampleValues(f) ==
  CASE f = "sonnet45Requests" -> {150, 200}
    [] f = "geminiRequests"   -> {300, 500}
    [] f = "gpt5Requests"     -> {200, 450}
    [] f = "totalRequests"    -> {650, 1150}

ExampleArgs ==
  { a \in [CountFields -> {Undefined} \cup
                           { <<v>> : v \in {150, 200, 300, 450, 500, 650, 1150} }] :
      \A f \in CountFields : a[f] = Undefined \/ a[f][1] \in ExampleValues(f) }

InitExample ==
  /\ now = 0
  /\ constructor("pro")

NextExample ==
  \/ \E args \in ExampleArgs : handleUpdateUsage(args)
  \/ GetUsageStats
  \/ CheckAlerts
  \/ \E service \in ServiceSet : GetServiceUsage(service)
  \/ \E callback \in Observers : onUpdate(callback)

SpecExample == InitExample /\ [][NextExample]_vars

(***************************************************************************)
(* A caller that writes to what the monitor gave it.  getUsageStats()      *)
(* returns { limits: { ...this.limits }, quotas: { ...this.quotas }, ... }:*)
(* the two objects are new, their number and string fields are copies, and *)
(* limits.lastUpdated is the Date object the monitor holds.  While ret is  *)
(* the stats (or delivered holds them) no method has run since they were   *)
(* made, so the Date in them is still the one in this.limits.  A write to  *)
(* a field of the returned objects changes the returned value only; a      *)
(* setTime on the returned Date changes the Date of the monitor too.       *)
(***************************************************************************)
CallerCounts == {7}

CallerTimes == {-1}

\* stats.limits[f] = v, on the stats that getUsageStats() returned
SetReturnedCount(f, v) ==
  /\ ret[1] = "UsageStats"
  /\ ret' = <<"UsageStats", [ret[2] EXCEPT !.limits[f] = v]>>
  /\ lastCall' = <<"stats.limits[f] =", [field |-> f, value |-> v]>>
  /\ delivered' = <<>>
  /\ UNCHANGED <<limits, quotas, updateCallbacks, now, unsubscribed>>

\* stats.quotas.tier = tier
SetReturnedTier(tier) ==
  /\ ret[1] = "UsageStats"
  /\ ret' = <<"UsageStats", [ret[2] EXCEPT !.quotas.tier = tier]>>
  /\ lastCall' = <<"stats.quotas.tier =", tier>>
  /\ delivered' = <<>>
  /\ UNCHANGED <<limits, quotas, updateCallbacks, now, unsubscribed>>

\* stats.limits.lastUpdated.setTime(t)
SetReturnedTime(t) ==
  /\ ret[1] = "UsageStats"
  /\ ret' = <<"UsageStats", [ret[2] EXCEPT !.limits.lastUpdated = t]>>
  /\ limits' = [limits EXCEPT !.lastUpdated = t]
  /\ lastCall' = <<"stats.limits.lastUpdated.setTime", t>>
  /\ delivered' = <<>>
  /\ UNCHANGED <<quotas, updateCallbacks, now, unsubscribed>>

\* the same setTime by an observer, on the stats of the last fan-out, after
\* the call that notified it has returned
SetDeliveredTime(t) ==
  /\ Len(delivered) > 0
  /\ delivered' = [i \in 1..Len(delivered) |->
                     [delivered[i] EXCEPT !.limits.lastUpdated = t]]
  /\ limits' = [limits EXCEPT !.lastUpdated = t]
  /\ lastCall' = <<"stats.limits.lastUpdated.setTime", t>>
  /\ UNCHANGED <<quotas, updateCallbacks, now, ret, unsubscribed>>

CallerWrites ==
  {"stats.limits[f] =", "stats.quotas.tier =", "stats.limits.lastUpdated.setTime"}

\* the updates of this specification supply totalRequests or nothing
TotalArgs ==
  { a \in UpdateArgs : \A f \in CountFields \ {"totalRequests"} : a[f] = Undefined }

NextCaller ==
  \/ \E args \in TotalArgs : handleUpdateUsage(args)
  \/ \E tier \in TierArgs : updateTier(tier)
  \/ \E callback \in Observers : onUpdate(callback)
  \/ GetUsageStats
  \/ \E v \in CallerCounts : SetReturnedCount("totalRequests", v)
  \/ SetReturnedTier("ultra")
  \/ \E t \in CallerTimes : SetReturnedTime(t)
  \/ \E t \in CallerTimes : SetDeliveredTime(t)
  \/ Tick

SpecCaller == Init /\ [][NextCaller]_vars

(***************************************************************************)
(* updateLimits called directly.  Its parameter is Partial<                *)
(* CursorProLimits>, so a caller may leave every field out and may supply  *)
(* a lastUpdated of its own, which update_usage never does.                *)
(***************************************************************************)
\* the times of the Date objects a caller supplies: none is a clock value
SuppliedTimes == {-7}

DirectUpdates ==
  { [f \in D |-> IF f = "lastUpdated" THEN t ELSE 1300] :
      D \in SUBSET {"totalRequests", "lastUpdated"}, t \in SuppliedTimes }

NextDirect ==
  \/ \E newLimits \in DirectUpdates : updateLimits(newLimits)
  \/ \E tier \in TierArgs : updateTier(tier)
  \/ \E callback \in Observers : onUpdate(callback)
  \/ \E callback \in Observers : removeUpdateCallback(callback)
  \/ GetUsageStats
  \/ \E service \in ServiceSet : GetServiceUsage(service)
  \/ CheckAlerts
  \/ GetCurrentTier
  \/ Tick

SpecDirect == Init /\ [][NextDirect]_vars

(***************************************************************************)
(* Observers that act.  notifyCallbacks computes stats once and runs       *)
(* this.updateCallbacks.forEach(callback => callback(stats)), with no try  *)
(* around the call.  forEach reads the length of the array once, before    *)
(* the first call, and then visits the indices below that length in        *)
(* order, reading the array as it is at the time of each visit and passing *)
(* over an index that the array no longer has.  A callback returns, throws *)
(* or calls removeUpdateCallback and returns; plan[k] is what the callback *)
(* that is called at the k-th index does.                                  *)
(***************************************************************************)
Behaviours ==
  {<<"return">>, <<"throw">>} \cup {<<"removeUpdateCallback", o>> : o \in Observers}

\* the plans of one fan-out: at most one of the callbacks does more than return
Plans ==
  { plan \in [1..MaxCallbacks -> Behaviours] :
      Cardinality({k \in 1..MaxCallbacks : plan[k] # <<"return">>}) <= 1 }

\* a plan for the list cbs says nothing of the indices the list does not have
PlanFor(cbs, plan) ==
  \A k \in (Len(cbs) + 1)..MaxCallbacks : plan[k] = <<"return">>

\* the number of entries of the list s that are o
Occurrences(s, o) == Cardinality({i \in 1..Len(s) : s[i] = o})

\* the observer list after removeUpdateCallback(callback) on the list cbs
withoutFirst(cbs, callback) ==
  LET index == indexOf(cbs, callback) IN
    IF index > 0 THEN splice(cbs, index) ELSE cbs

\* forEach from index k on: the list at the end, the calls made, and the
\* observer that threw (<<>> when none did)
RECURSIVE forEach(_, _, _, _, _, _)
forEach(cbs, k, len, stats, plan, done) ==
  IF k > len
  THEN [updateCallbacks |-> cbs, delivered |-> done, thrown |-> <<>>]
  ELSE IF k > Len(cbs)
  THEN forEach(cbs, k + 1, len, stats, plan, done)
  ELSE LET called == Append(done, [observer |-> cbs[k],
                                   limits |-> stats.limits,
                                   quotas |-> stats.quotas])
       IN  CASE plan[k][1] = "throw" ->
                  [updateCallbacks |-> cbs, delivered |-> called,
                   thrown |-> <<cbs[k]>>]
             [] plan[k][1] = "removeUpdateCallback" ->
                  forEach(withoutFirst(cbs, plan[k][2]), k + 1, len, stats,
                          plan, called)
             [] OTHER ->
                  forEach(cbs, k + 1, len, stats, plan, called)

\* a fan-out that catches what a callback throws and goes on
notifyCallbacksIsolating(l, q, cbs, plan) ==
  forEach(cbs, 1, Len(cbs), [limits |-> l, quotas |-> q],
          [k \in DOMAIN plan |->
             IF plan[k][1] = "throw" THEN <<"return">> ELSE plan[k]],
          <<>>)

notifyCallbacksActing(l, q, cbs, plan) ==
  forEach(cbs, 1, Len(cbs), [limits |-> l, quotas |-> q], plan, <<>>)

\* what a call returns after the fan-out run: it throws what a callback threw
Outcome(run) ==
  IF run.thrown = <<>> THEN Void ELSE <<"throw", run.thrown[1]>>

\* the observers without a registration after the fan-out run
Unsubscribed(run) ==
  unsubscribed \cup
    {o \in Observers : Registrations(o) > 0
                          /\ Occurrences(run.updateCallbacks, o) = 0}

\* updateLimits that puts the old snapshot back when a callback throws
updateLimitsRollingBack(newLimits, plan) ==
  /\ PlanFor(updateCallbacks, plan)
  /\ LET run == notifyCallbacksActing(mergeLimits(limits, newLimits, now),
                                      quotas, updateCallbacks, plan) IN
       /\ limits' = IF run.thrown = <<>>
                    THEN mergeLimits(limits, newLimits, now) ELSE limits
       /\ updateCallbacks' = run.updateCallbacks
       /\ delivered' = run.delivered
       /\ ret' = Outcome(run)
       /\ unsubscribed' = Unsubscribed(run)
  /\ lastCall' = <<"updateLimits", newLimits, plan>>
  /\ UNCHANGED <<quotas, now>>

updateLimitsActing(newLimits, plan) ==
  /\ PlanFor(updateCallbacks, plan)
  /\ limits' = mergeLimits(limits, newLimits, now)
  /\ LET run == notifyCallbacksActing(limits', quotas, updateCallbacks, plan) IN
       /\ updateCallbacks' = run.updateCallbacks
       /\ delivered' = run.delivered
       /\ ret' = Outcome(run)
       /\ unsubscribed' = Unsubscribed(run)
  /\ lastCall' = <<"updateLimits", newLimits, plan>>
  /\ UNCHANGED <<quotas, now>>

updateTierActing(tier, plan) ==
  /\ PlanFor(updateCallbacks, plan)
  /\ quotas' = getQuotasForTier(tier)
  /\ LET run == notifyCallbacksActing(limits, quotas', updateCallbacks, plan) IN
       /\ updateCallbacks' = run.updateCallbacks
       /\ delivered' = run.delivered
       /\ ret' = Outcome(run)
       /\ unsubscribed' = Unsubscribed(run)
  /\ lastCall' = <<"updateTier", tier, plan>>
  /\ UNCHANGED <<limits, now>>

NextObservers ==
  \/ \E args \in TotalArgs, plan \in Plans :
       updateLimitsActing(updatesOf(args), plan)
  \/ \E tier \in TierArgs, plan \in Plans :
       updateTierActing(tier, plan)
  \/ \E callback \in Observers : onUpdate(callback)
  \/ \E callback \in Observers : removeUpdateCallback(callback)

SpecObservers == Init /\ [][NextObservers]_vars

(***************************************************************************)
(* Observers that call updateLimits or updateTier from their callback.     *)
(* The outer call has assigned its field and computed stats before the     *)
(* first callback runs.  A nested call assigns its own field, computes new *)
(* stats and notifies the whole list with them, and returns; the outer     *)
(* forEach then goes on with the stats it had computed at its start.  The  *)
(* callbacks of a nested fan-out return (an observer that calls the        *)
(* monitor every time it is called never ends).                            *)
(***************************************************************************)
ReentrantBehaviours ==
  {<<"return">>, <<"updateLimits", [totalRequests |-> 1300]>>,
   <<"updateLimits", [sonnet45Requests |-> 200]>>, <<"updateTier", "ultra">>}

\* the plans of one outer fan-out: at most one callback calls the monitor
ReentrantPlans ==
  { plan \in [1..MaxCallbacks -> ReentrantBehaviours] :
      Cardinality({k \in 1..MaxCallbacks : plan[k] # <<"return">>}) <= 1 }

\* the outer forEach from index k on, with the stats of the outer call; run
\* holds the fields of the monitor and the calls made so far
RECURSIVE forEachReentrant(_, _, _, _, _)
forEachReentrant(cbs, k, stats, plan, run) ==
  IF k > Len(cbs) THEN run
  ELSE LET called == Append(run.delivered, [observer |-> cbs[k],
                                           limits |-> stats.limits,
                                           quotas |-> stats.quotas])
       IN  CASE plan[k][1] = "updateLimits" ->
                  LET l == mergeLimits(run.limits, plan[k][2], now) IN
                    forEachReentrant(cbs, k + 1, stats, plan,
                      [limits |-> l, quotas |-> run.quotas,
                       delivered |-> called \o notifyCallbacks(l, run.quotas, cbs)])
             [] plan[k][1] = "updateTier" ->
                  LET q == getQuotasForTier(plan[k][2]) IN
                    forEachReentrant(cbs, k + 1, stats, plan,
                      [limits |-> run.limits, quotas |-> q,
                       delivered |-> called \o notifyCallbacks(run.limits, q, cbs)])
             [] OTHER ->
                  forEachReentrant(cbs, k + 1, stats, plan,
                    [run EXCEPT !.delivered = called])

\* notifyCallbacks on the fields l, q with callbacks that follow plan
notifyCallbacksReentrant(l, q, cbs, plan) ==
  forEachReentrant(cbs, 1, [limits |-> l, quotas |-> q], plan,
                   [limits |-> l, quotas |-> q, delivered |-> <<>>])

updateLimitsReentrant(newLimits, plan) ==
  /\ PlanFor(updateCallbacks, plan)
  /\ LET run == notifyCallbacksReentrant(mergeLimits(limits, newLimits, now),
                                         quotas, updateCallbacks, plan) IN
       /\ limits' = run.limits
       /\ quotas' = run.quotas
       /\ delivered' = run.delivered
  /\ lastCall' = <<"updateLimits", newLimits, plan>>
  /\ ret' = Void
  /\ UNCHANGED <<updateCallbacks, now, unsubscribed>>

updateTierReentrant(tier, plan) ==
  /\ PlanFor(updateCallbacks, plan)
  /\ LET run == notifyCallbacksReentrant(limits, getQuotasForTier(tier),
                                         updateCallbacks, plan) IN
       /\ limits' = run.limits
       /\ quotas' = run.quotas
       /\ delivered' = run.delivered
  /\ lastCall' = <<"updateTier", tier, plan>>
  /\ ret' = Void
  /\ UNCHANGED <<updateCallbacks, now, unsubscribed>>

NextReentrant ==
  \/ \E args \in TotalArgs, plan \in ReentrantPlans :
       updateLimitsReentrant(updatesOf(args), plan)
  \/ \E tier \in TierArgs, plan \in ReentrantPlans :
       updateTierReentrant(tier, plan)
  \/ \E callback \in Observers : onUpdate(callback)
  \/ Tick

SpecReentrant == Init /\ [][NextReentrant]_vars

(***************************************************************************)
(* Vocabulary of the properties                                            *)
(***************************************************************************)
\* this step is a call of the method op (Tick leaves lastCall as it is)
Called(op) == lastCall'[1] = op /\ now' = now

\* the observers notified by the last call, in the order of the calls
DeliveredObservers == [i \in 1..Len(delivered) |-> delivered[i].observer]

DeliveredTo(o) == \E i \in 1..Len(delivered) : delivered[i].observer = o

Registered(o) == Registrations(o) > 0

NotifyingOps == {"updateLimits", "updateTier"}

TypeOK ==
  /\ now \in 0..MaxTime
  /\ Len(updateCallbacks) <= MaxCallbacks
  /\ quotas.tier \in RecognizedTiers

(***************************************************************************)
(* C1: updateLimits is a partial merge.  In every call each count field    *)
(* that the argument supplies takes the supplied value, each count field   *)
(* that it does not supply keeps its previous value, and the quota set and *)
(* the observer list are unchanged.                                        *)
(***************************************************************************)
C1_PartialMerge ==
  [][Called("updateLimits") =>
       /\ \A f \in CountFields :
            limits'[f] = IF f \in DOMAIN lastCall'[2] THEN lastCall'[2][f]
                         ELSE limits[f]
       /\ quotas' = quotas
       /\ updateCallbacks' = updateCallbacks]_vars

\* an update of gemini alone has kept the counts that earlier updates had set
C1_Witness ==
  /\ lastCall[1] = "updateLimits"
  /\ DOMAIN lastCall[2] = {"geminiRequests"}
  /\ limits.sonnet45Requests = 200
  /\ limits.geminiRequests = 500
  /\ limits.gpt5Requests = 450
  /\ limits.totalRequests = 1300

(***************************************************************************)
(* C2: updateTier never changes the usage snapshot: the four counts and    *)
(* the last-updated timestamp after the call are those before the call.    *)
(***************************************************************************)
C2_TierKeepsSnapshot ==
  [][Called("updateTier") => limits' = limits]_vars

\* a tier change on a snapshot with counts and with a timestamp in the past
C2_Witness ==
  /\ lastCall[1] = "updateTier"
  /\ lastCall[2] = "ultra"
  /\ quotas.tier = "ultra"
  /\ limits.sonnet45Requests = 200
  /\ limits.totalRequests = 1300
  /\ limits.lastUpdated < now

(***************************************************************************)
(* C3: checkAlerts() holds an entry for a service exactly when the         *)
(* service's fraction of its ceiling, current / ceiling, is at least 0.8   *)
(* (100 * current >= 80 * ceiling).                                        *)
(***************************************************************************)
Alerted(service) ==
  \E i \in 1..Len(checkAlerts) : checkAlerts[i].service = service

C3_AlertIffFractionAtLeast80 ==
  \A service \in ServiceSet :
    Alerted(service) <=>
      100 * getCurrentUsage(service) >= 80 * getMaxUsage(service)

(***************************************************************************)
(* C4: getServiceUsage(service) sets isCritical exactly when current /     *)
(* ceiling >= 0.95 and isWarning exactly when current / ceiling >= 0.8,    *)
(* the compared value being a fraction on the scale 0.0 to 1.0.            *)
(***************************************************************************)
C4_FlagsCompareFraction ==
  \A service \in ServiceSet :
    LET usage    == getServiceUsage(service)
        fraction == Rat(getCurrentUsage(service), getMaxUsage(service))
    IN  /\ usage.isCritical <=> RatLeq(Rat(95, 100), fraction)
        /\ usage.isWarning <=> RatLeq(Rat(8, 10), fraction)

C6_SilentAfterUnsubscribe ==
  [][(lastCall[1] = "removeUpdateCallback" /\ lastCall'[1] \in NotifyingOps) =>
       \A i \in 1..Len(delivered') : delivered'[i].observer # lastCall[2]]_vars

(***************************************************************************)
(* C6 amended: after removeUpdateCallback(o) returns, o receives no        *)
(* further notification until onUpdate(o) is called again, provided o was  *)
(* registered at most once when it was called: an observer whose only      *)
(* registration was removed is not registered, and no updateLimits or      *)
(* updateTier call notifies an observer that is not registered.  (An       *)
(* observer registered k >= 2 times stays registered k - 1 times.)         *)
(***************************************************************************)
C6_SilentAfterLastUnsubscribe ==
  /\ \A o \in unsubscribed : ~Registered(o)
  /\ \A o \in Observers : ~Registered(o) => ~DeliveredTo(o)

\* o1 was subscribed and unsubscribed, o2 stayed, and an update that came
\* later has notified o2 alone
C6_Witness ==
  /\ lastCall[1] = "updateLimits"
  /\ "o1" \in unsubscribed
  /\ updateCallbacks = <<"o2">>
  /\ DeliveredObservers = <<"o2">>

(***************************************************************************)
(* C7: whenever the count of a service is not negative,                    *)
(* getUsageStats().remaining of the service is ceiling - current when the  *)
(* count is below the ceiling of the active tier, and 0 otherwise.         *)
(***************************************************************************)
C7_RemainingFlooredAtZero ==
  \A service \in ServiceSet :
    LET current == getCurrentUsage(service)
        ceiling == getMaxUsage(service)
    IN  current >= 0 =>
          getUsageStats.remaining[service]
            = IF ceiling - current > 0 THEN ceiling - current ELSE 0

\* after a change back to pro: total is over its ceiling, gemini is under it
C7_Witness ==
  /\ lastCall[1] = "updateTier"
  /\ quotas.tier = "pro"
  /\ limits.totalRequests = 1300
  /\ limits.geminiRequests = 500
  /\ getUsageStats.remaining.total = 0
  /\ getUsageStats.remaining.gemini = 50

(***************************************************************************)
(* C8: whenever the count of a service is not negative, the percentage of  *)
(* the service in getUsageStats() lies in 0..100, is exactly 100 whenever  *)
(* current >= ceiling, and is exactly 0 whenever ceiling = 0.  No tier of  *)
(* the catalog has a ceiling of 0, so the last part is checked on          *)
(* calculatePercentage itself: with a ceiling of 0 it returns 0 for every  *)
(* count, and with a positive ceiling it returns 100 from the ceiling on.  *)
(***************************************************************************)
PercentageAsStated(p, current, ceiling) ==
  /\ RatLeq(Rat(0, 1), p) /\ RatLeq(p, Rat(100, 1))
  /\ current >= ceiling => RatEq(p, Rat(100, 1))
  /\ ceiling = 0 => RatEq(p, Rat(0, 1))

C8_PercentageClamped ==
  /\ \A service \in ServiceSet :
       getCurrentUsage(service) >= 0 =>
         PercentageAsStated(getUsageStats.usagePercentages[service],
                            getCurrentUsage(service), getMaxUsage(service))
  /\ lastCall[1] = "calculatePercentage" =>
       LET current == lastCall[2].current
           max     == lastCall[2].max
       IN  /\ RatLeq(Rat(0, 1), ret[2]) /\ RatLeq(ret[2], Rat(100, 1))
           /\ max = 0 => RatEq(ret[2], Rat(0, 1))
           /\ (max > 0 /\ current >= max) => RatEq(ret[2], Rat(100, 1))

\* total is over its pro ceiling and reads 100, sonnet45 is in between, and
\* a ceiling of 0 gave 0
C8_Witness ==
  /\ quotas.tier = "pro"
  /\ limits.totalRequests = 1300
  /\ limits.sonnet45Requests = 200
  /\ RatEq(getUsageStats.usagePercentages.total, Rat(100, 1))
  /\ RatEq(getUsageStats.usagePercentages.sonnet45, Rat(800, 9))
  /\ lastCall[1] = "calculatePercentage"
  /\ lastCall[2].current = 200
  /\ lastCall[2].max = 0
  /\ RatEq(ret[2], Rat(0, 1))

(***************************************************************************)
(* C9: tier resolution is total.  After the constructor or updateTier was  *)
(* called with a tier outside pro, pro-plus and ultra, the call has        *)
(* returned normally, the quota set is that of pro, 225/550/500/1275, and  *)
(* getCurrentTier() gives "pro", not the tier that was asked for.          *)
(***************************************************************************)
C9_UnrecognizedTierIsPro ==
  (lastCall[1] \in {"constructor", "updateTier"}
     /\ lastCall[2] \notin RecognizedTiers) =>
    /\ ret = Void
    /\ quotas = [maxSonnet45Requests |-> 225, maxGeminiRequests |-> 550,
                 maxGpt5Requests |-> 500, maxTotalRequests |-> 1275,
                 tier |-> "pro"]
    /\ getCurrentTier = "pro"
    /\ \A i \in 1..Len(delivered) : delivered[i].quotas = quotas

\* updateTier("enterprise") on a monitor with counts and an observer, which
\* was told of the quota set of pro
C9_Witness ==
  /\ lastCall = <<"updateTier", "enterprise">>
  /\ limits.totalRequests = 1300
  /\ Len(delivered) = 1
  /\ delivered[1].quotas.tier = "pro"
  /\ StatsDelivered(delivered[1]).remaining.total = 0

(***************************************************************************)
(* C10: the queries are read-only.  Every call of getUsageStats,           *)
(* getServiceUsage, checkAlerts or getCurrentTier leaves the snapshot      *)
(* (counts and timestamp), the quota set and the observer list as they     *)
(* were and notifies no observer; and a getUsageStats() call whose         *)
(* previous call was getUsageStats() too, whatever time went by between    *)
(* them, returns the same result.                                          *)
(***************************************************************************)
QueryOps == {"getUsageStats", "getServiceUsage", "checkAlerts", "getCurrentTier"}

C10_QueriesReadOnly ==
  [][(\E op \in QueryOps : Called(op)) =>
       /\ limits' = limits
       /\ quotas' = quotas
       /\ updateCallbacks' = updateCallbacks
       /\ delivered' = <<>>
       /\ (lastCall[1] = "getUsageStats" /\ lastCall'[1] = "getUsageStats") =>
            ret' = ret]_vars

\* getUsageStats() on a monitor with two observers and a snapshot older
\* than the clock
C10_Witness ==
  /\ lastCall[1] = "getUsageStats"
  /\ Len(updateCallbacks) = 2
  /\ limits.totalRequests = 1300
  /\ limits.lastUpdated < now
  /\ ret[2].limits = limits
  /\ delivered = <<>>

(***************************************************************************)
(* C11: in every reachable state the list of checkAlerts() is a            *)
(* subsequence of the enumeration sonnet45, gemini, gpt5, total: its       *)
(* entries are services of the enumeration, they come in the order of the  *)
(* enumeration, and no service comes twice.                                *)
(***************************************************************************)
C11_AlertsInEnumerationOrder ==
  LET alerts == checkAlerts IN
    /\ \A i \in 1..Len(alerts) : alerts[i].service \in ServiceSet
    /\ \A i, j \in 1..Len(alerts) :
         i < j => indexOf(Services, alerts[i].service)
                    < indexOf(Services, alerts[j].service)

\* checkAlerts() has returned gemini and total, without sonnet45 and gpt5
C11_Witness ==
  /\ lastCall[1] = "checkAlerts"
  /\ Len(ret[2]) = 2
  /\ ret[2][1].service = "gemini"
  /\ ret[2][2].service = "total"
  /\ ret[2] = checkAlerts

(***************************************************************************)
(* C12: on a monitor of the tier pro, checkAlerts() after the update       *)
(* {150, 300, 200, 650} returns no alert, and checkAlerts() after the      *)
(* further update {200, 500, 450, 1150} returns exactly three entries,     *)
(* gemini, gpt5 and total in this order, none of them critical.            *)
(***************************************************************************)
Counts(a, b, c, total) ==
  /\ limits.sonnet45Requests = a
  /\ limits.geminiRequests = b
  /\ limits.gpt5Requests = c
  /\ limits.totalRequests = total

C12_ExampleAlerts ==
  (lastCall[1] = "checkAlerts" /\ quotas.tier = "pro") =>
    /\ Counts(150, 300, 200, 650) => ret[2] = <<>>
    /\ Counts(200, 500, 450, 1150) =>
         /\ [i \in 1..Len(ret[2]) |-> ret[2][i].service]
              = <<"gemini", "gpt5", "total">>
         /\ \A i \in 1..Len(ret[2]) : ~ret[2][i].isCritical

(***************************************************************************)
(* C13: on a monitor of the tier pro whose sonnet45 count is 200,          *)
(* updateTier("pro-plus") makes the sonnet45 ceiling 675, makes the        *)
(* sonnet45 percentage strictly smaller than it was, and leaves sonnet45   *)
(* out of checkAlerts(), whether it was in it before the call or not.      *)
(***************************************************************************)
C13_TierChangeClearsAlert ==
  [][(/\ quotas.tier = "pro"
      /\ limits.sonnet45Requests = 200
      /\ Called("updateTier")
      /\ lastCall'[2] = "pro-plus") =>
       /\ getMaxUsage("sonnet45")' = 675
       /\ RatLeq(getUsageStats.usagePercentages.sonnet45',
                 getUsageStats.usagePercentages.sonnet45)
       /\ ~RatEq(getUsageStats.usagePercentages.sonnet45',
                 getUsageStats.usagePercentages.sonnet45)
       /\ ~Alerted("sonnet45")']_vars

(***************************************************************************)
(* C14: getUsageStats() returns copies.  No write of a caller or of an     *)
(* observer to the stats it was given, to the snapshot in them, to the     *)
(* timestamp in them or to the quota set in them, changes what             *)
(* getUsageStats(), getServiceUsage() and getCurrentTier() return.         *)
(***************************************************************************)
C14_ReturnsCopies ==
  [][(lastCall'[1] \in CallerWrites /\ now' = now) =>
       /\ getUsageStats' = getUsageStats
       /\ getCurrentTier' = getCurrentTier
       /\ \A service \in ServiceSet :
            getServiceUsage(service)' = getServiceUsage(service)]_vars

(***************************************************************************)
(* C15: every updateLimits call sets limits.lastUpdated to the time of the *)
(* call, whatever its argument is, an empty argument and an argument with  *)
(* a lastUpdated of its own included; and no call of updateTier, onUpdate, *)
(* removeUpdateCallback or of a query changes limits.lastUpdated.          *)
(***************************************************************************)
OtherOps == {"updateTier", "onUpdate", "removeUpdateCallback"} \cup QueryOps

C15_TimestampIsCallTime ==
  [][/\ Called("updateLimits") => limits'.lastUpdated = now
     /\ (\E op \in OtherOps : Called(op)) =>
          limits'.lastUpdated = limits.lastUpdated]_vars

\* an update that supplied only a lastUpdated of its own, made at time 1 on
\* a snapshot with a count, was stamped with the clock
C15_Witness ==
  /\ lastCall[1] = "updateLimits"
  /\ DOMAIN lastCall[2] = {"lastUpdated"}
  /\ lastCall[2].lastUpdated \in SuppliedTimes
  /\ limits.totalRequests = 1300
  /\ limits.lastUpdated = 1
  /\ now = 1

(***************************************************************************)
(* C16: a failure of an observer is not isolated.  When, in the fan-out of *)
(* an updateLimits or updateTier call, the callback at the k-th entry of   *)
(* the observer list throws and the callbacks before it have returned, the *)
(* call throws what that callback threw, the entries up to the k-th have   *)
(* been called, in order, and no entry after the k-th is called.           *)
(***************************************************************************)
C16_FailureStopsFanOut ==
  [][\A k \in 1..Len(updateCallbacks) :
       (/\ \E op \in NotifyingOps : Called(op)
        /\ Len(lastCall') = 3
        /\ lastCall'[3][k] = <<"throw">>
        /\ \A j \in 1..(k - 1) : lastCall'[3][j] = <<"return">>) =>
         /\ ret' = <<"throw", updateCallbacks[k]>>
         /\ DeliveredObservers' = SubSeq(updateCallbacks, 1, k)
         /\ updateCallbacks' = updateCallbacks]_vars

\* of three observers the second threw in an update: the first two were
\* called, the third was not, and the count of the update is in the snapshot
C16_Witness ==
  /\ lastCall[1] = "updateLimits"
  /\ updateCallbacks = <<"o1", "o2", "o1">>
  /\ ret = <<"throw", "o2">>
  /\ DeliveredObservers = <<"o1", "o2">>
  /\ limits.totalRequests = 1300

(***************************************************************************)
(* C20: when callbacks call removeUpdateCallback during the fan-out of an  *)
(* updateLimits or updateTier call and none throws, every observer that    *)
(* was registered when the call began and that lost no registration in it  *)
(* has been notified by the call.                                          *)
(***************************************************************************)
C20_NoObserverSkipped ==
  [][((\E op \in NotifyingOps : Called(op)) /\ ret' = Void) =>
       \A o \in Observers :
         (Registrations(o) > 0 /\ Registrations(o)' = Registrations(o)) =>
           DeliveredTo(o)']_vars

(***************************************************************************)
(* C17: removeUpdateCallback(o) removes the first entry of the observer    *)
(* list that is o and keeps every other entry in its place relative to the *)
(* others, so that an observer with k >= 1 entries has k - 1 afterwards;   *)
(* when no entry is o the list is unchanged.  In both cases the snapshot   *)
(* and the quotas are unchanged and no observer is called.                 *)
(***************************************************************************)
C17_RemovesFirstOccurrence ==
  [][Called("removeUpdateCallback") =>
       LET o == lastCall'[2]
           n == Len(updateCallbacks)
       IN  /\ (\A i \in 1..n : updateCallbacks[i] # o) =>
                updateCallbacks' = updateCallbacks
           /\ \A k \in 1..n :
                (updateCallbacks[k] = o
                   /\ \A j \in 1..(k - 1) : updateCallbacks[j] # o) =>
                  /\ updateCallbacks' = SubSeq(updateCallbacks, 1, k - 1)
                                          \o SubSeq(updateCallbacks, k + 1, n)
                  /\ Occurrences(updateCallbacks', o)
                       = Occurrences(updateCallbacks, o) - 1
           /\ limits' = limits
           /\ quotas' = quotas
           /\ delivered' = <<>>]_vars

\* o1 was removed once from a list of three entries and is still registered,
\* behind o2, on a monitor with counts
C17_Witness ==
  /\ lastCall = <<"removeUpdateCallback", "o1">>
  /\ updateCallbacks = <<"o2", "o1">>
  /\ unsubscribed = {}
  /\ limits.totalRequests = 1300

(***************************************************************************)
(* C18: in every reachable state the quota set is one of the three rows of *)
(* the catalog, pro = (225, 550, 500, 1275), pro-plus = (675, 1650, 1500,  *)
(* 3825), ultra = (4500, 11000, 10000, 25500); it is the row that          *)
(* getCurrentTier() names; and its aggregate ceiling is the sum of its     *)
(* three ceilings.                                                         *)
(***************************************************************************)
CatalogRow(tier, a, b, c, total) ==
  [maxSonnet45Requests |-> a, maxGeminiRequests |-> b, maxGpt5Requests |-> c,
   maxTotalRequests |-> total, tier |-> tier]

C18_QuotasAreACatalogRow ==
  /\ quotas \in {CatalogRow("pro", 225, 550, 500, 1275),
                 CatalogRow("pro-plus", 675, 1650, 1500, 3825),
                 CatalogRow("ultra", 4500, 11000, 10000, 25500)}
  /\ quotas.tier = getCurrentTier
  /\ quotas.maxTotalRequests
       = quotas.maxSonnet45Requests + quotas.maxGeminiRequests
           + quotas.maxGpt5Requests

\* the row of ultra, installed by updateTier and kept through an update
C18_Witness ==
  /\ lastCall[1] = "updateLimits"
  /\ limits.totalRequests = 1300
  /\ Len(delivered) > 0
  /\ quotas = CatalogRow("ultra", 4500, 11000, 10000, 25500)
  /\ delivered[1].quotas = quotas

(***************************************************************************)
(* C19: the figures are clamped for any input.  In every reachable state,  *)
(* states with a negative count included, every percentage of             *)
(* getUsageStats() lies in 0..100 and every remaining value is at least 0. *)
(***************************************************************************)
C19_FiguresClampedForAnyInput ==
  \A service \in ServiceSet :
    /\ RatLeq(Rat(0, 1), getUsageStats.usagePercentages[service])
    /\ RatLeq(getUsageStats.usagePercentages[service], Rat(100, 1))
    /\ getUsageStats.remaining[service] >= 0

(***************************************************************************)
(* C21: when a callback calls updateLimits or updateTier during a fan-out, *)
(* then after the outermost call has returned the last notification that   *)
(* each registered observer received carries the stats of the state the    *)
(* monitor is in: no observer was last told of stats that were computed    *)
(* before the nested change.                                               *)
(***************************************************************************)
LastDelivered(o) ==
  LET to == {i \in 1..Len(delivered) : delivered[i].observer = o}
  IN  delivered[CHOOSE i \in to : \A j \in to : j <= i]

C21_LastNotificationIsCurrent ==
  lastCall[1] \in NotifyingOps =>
    \A o \in Observers :
      Registered(o) => StatsDelivered(LastDelivered(o)) = getUsageStats

(***************************************************************************)
(* C22: updateLimits and updateTier assign the new snapshot or quota set   *)
(* before the first callback runs and never take it back.  Every callback  *)
(* that is called is passed the stats of the state after the change, and   *)
(* when a callback throws, the state after the exception has left the call *)
(* is still the changed one: the supplied counts and the call time (the    *)
(* other counts and the quotas kept), or the catalog row of the tier (the  *)
(* snapshot kept).                                                         *)
(***************************************************************************)
C22_ChangeAppliedAndKept ==
  [][\A op \in NotifyingOps :
       Called(op) =>
         /\ \A i \in 1..Len(delivered') :
              StatsDelivered(delivered'[i]) = getUsageStats'
         /\ op = "updateLimits" =>
              /\ \A f \in CountFields :
                   limits'[f] = IF f \in DOMAIN lastCall'[2]
                                THEN lastCall'[2][f] ELSE limits[f]
              /\ limits'.lastUpdated = now
              /\ quotas' = quotas
         /\ op = "updateTier" =>
              /\ quotas' = getQuotasForTier(lastCall'[2])
              /\ limits' = limits]_vars

\* an update of the total to 1300 whose first callback threw: the one call
\* made carried 1300 and the monitor holds 1300 after the call
C22_Witness ==
  /\ lastCall[1] = "updateLimits"
  /\ "totalRequests" \in DOMAIN lastCall[2]
  /\ ret[1] = "throw"
  /\ Len(updateCallbacks) >= 2
  /\ Len(delivered) = 1
  /\ delivered[1].limits.totalRequests = 1300
  /\ limits.totalRequests = 1300

====
